---- MODULE Spec2Model ----
(***************************************************************************)
(* Mega-Sena generator (src/app.py, src/main.py): the ticket generator,    *)
(* the two-table store, the match and combination-frequency pages and the  *)
(* Mega da Virada classifier, as a state machine.                          *)
(*                                                                         *)
(* Python values are modelled as follows.  A list or tuple is a sequence.  *)
(* A str is a sequence of one-character strings, so that formatting and    *)
(* parsing (str, int, join, split, strftime, strptime) are computed and    *)
(* not assumed.  A date is a record [year, month, day].  A function call   *)
(* that returns is [status |-> "returned", value |-> v]; one that raises   *)
(* is [status |-> "raised", exc |-> name].                                 *)
(***************************************************************************)
EXTENDS Integers, Sequences, FiniteSets, TLC

VARIABLES
    official_draws,   \* table official_draws: rows in rowid (contest_number) order
    generated_games,  \* table generated_games: rows in rowid (id) order
    current_games,    \* st.session_state.current_games
    cache,            \* st.cache_data store of get_data, per table name
    call,             \* the operation in hand and its inputs (widget values, arguments)
    ret               \* what that operation returned or rendered

vars == <<official_draws, generated_games, current_games, cache, call, ret>>

(***************************************************************************)
(* Program constants                                                       *)
(***************************************************************************)
GameSize == 6
LastNumber == 60
MaxFixed == 5
MinSimulate == 6
MaxSelections == 15
MinReportedHits == 3
TopCombinations == 15
FirstViradaYear == 2009

Numbers == 1..LastNumber

(***************************************************************************)
(* Bounds of the model                                                     *)
(***************************************************************************)
\* The numbers a run selects or draws are 1..MaxPool and LastNumber.
MaxPool == 6

Pool == (1..MaxPool) \cup {LastNumber}

(***************************************************************************)
(* Python built-ins                                                        *)
(***************************************************************************)
Range(s) == {s[i] : i \in DOMAIN s}

IsDistinct(s) == \A i, j \in DOMAIN s : i # j => s[i] # s[j]

RECURSIVE DistinctLists(_, _)
\* All lists of n distinct elements of S: each list of n - 1 distinct
\* elements with one more element that is not in it.
DistinctLists(S, n) ==
    IF n = 0 THEN {<<>>}
    ELSE UNION {{Append(s, x) : x \in S \ Range(s)} : s \in DistinctLists(S, n - 1)}

Returned(v) == [status |-> "returned", value |-> v]

Raised(e) == [status |-> "raised", exc |-> e]

NotRun == [status |-> "none"]

\* Python's comparison of two tuples of int: lexicographic.
RECURSIVE TupleLess(_, _)
TupleLess(a, b) ==
    IF a = <<>> THEN b # <<>>
    ELSE IF b = <<>> THEN FALSE
    ELSE IF Head(a) # Head(b) THEN Head(a) < Head(b)
    ELSE TupleLess(Tail(a), Tail(b))

\* One step of a stable ascending sort of [key, item] records: x, which
\* followed every element of s in the input, goes after the elements whose
\* key is not greater than its own.
RECURSIVE InsertAscending(_, _)
InsertAscending(x, s) ==
    IF s = <<>> THEN <<x>>
    ELSE IF TupleLess(x.key, Head(s).key) THEN <<x>> \o s
    ELSE <<Head(s)>> \o InsertAscending(x, Tail(s))

RECURSIVE SortAscending(_)
SortAscending(s) ==
    IF s = <<>> THEN <<>>
    ELSE InsertAscending(s[Len(s)], SortAscending(SubSeq(s, 1, Len(s) - 1)))

\* The same with reverse=True: descending keys, and elements of equal key
\* still in their input order.
RECURSIVE InsertDescending(_, _)
InsertDescending(x, s) ==
    IF s = <<>> THEN <<x>>
    ELSE IF TupleLess(Head(s).key, x.key) THEN <<x>> \o s
    ELSE <<Head(s)>> \o InsertDescending(x, Tail(s))

RECURSIVE SortDescending(_)
SortDescending(s) ==
    IF s = <<>> THEN <<>>
    ELSE InsertDescending(s[Len(s)], SortDescending(SubSeq(s, 1, Len(s) - 1)))

Items(s) == [i \in DOMAIN s |-> s[i].item]

\* sorted(list of int)
sorted(s) == Items(SortAscending([i \in DOMAIN s |-> [key |-> <<s[i]>>, item |-> s[i]]]))

(***************************************************************************)
(* Strings, dates and their conversions                                    *)
(***************************************************************************)
DigitChars == <<"0", "1", "2", "3", "4", "5", "6", "7", "8", "9">>

IsDigit(c) == \E d \in DOMAIN DigitChars : DigitChars[d] = c

DigitValue(c) == (CHOOSE d \in DOMAIN DigitChars : DigitChars[d] = c) - 1

\* str(n) for an int n >= 0: its decimal digits, no padding.
RECURSIVE str(_)
str(n) ==
    IF n < 10 THEN <<DigitChars[n + 1]>>
    ELSE str(n \div 10) \o <<DigitChars[(n % 10) + 1]>>

\* The value of a non-empty run of decimal digits.
RECURSIVE DigitsValue(_)
DigitsValue(chars) ==
    IF Len(chars) = 1 THEN DigitValue(chars[1])
    ELSE 10 * DigitsValue(SubSeq(chars, 1, Len(chars) - 1)) + DigitValue(chars[Len(chars)])

\* int(chars) on the strings of the model (digits, separators, letters, no
\* sign or blank): the value of a run of digits, ValueError otherwise.
int(chars) ==
    IF chars # <<>> /\ \A i \in DOMAIN chars : IsDigit(chars[i])
    THEN Returned(DigitsValue(chars))
    ELSE Raised("ValueError")

\* sep.join(parts)
RECURSIVE join(_, _)
join(sep, parts) ==
    IF parts = <<>> THEN <<>>
    ELSE IF Len(parts) = 1 THEN parts[1]
    ELSE parts[1] \o sep \o join(sep, Tail(parts))

\* chars.split(sep) for a one-character sep: the pieces between the
\* separators, empty pieces kept.
RECURSIVE split(_, _)
split(chars, sep) ==
    IF \A i \in DOMAIN chars : chars[i] # sep THEN <<chars>>
    ELSE LET i == CHOOSE k \in DOMAIN chars :
                      chars[k] = sep /\ \A j \in 1..(k - 1) : chars[j] # sep
         IN <<SubSeq(chars, 1, i - 1)>> \o split(SubSeq(chars, i + 1, Len(chars)), sep)

\* ",".join(map(str, sorted(numbers)))
numbers_str(numbers) ==
    LET s == sorted(numbers) IN join(<<",">>, [i \in DOMAIN s |-> str(s[i])])

\* parse_numbers_from_str: [int(n) for n in numbers_str.split(",")]
parse_numbers_from_str(chars) ==
    LET parts == split(chars, ",")
        ints == [i \in DOMAIN parts |-> int(parts[i])]
    IN IF \E i \in DOMAIN ints : ints[i].status = "raised" THEN Raised("ValueError")
       ELSE Returned([i \in DOMAIN ints |-> ints[i].value])

\* n as exactly w decimal digits (n < 10^w), zero padded on the left.
RECURSIVE ZeroPadded(_, _)
ZeroPadded(n, w) ==
    IF w = 0 THEN <<>>
    ELSE ZeroPadded(n \div 10, w - 1) \o <<DigitChars[(n % 10) + 1]>>

\* date.strftime("%Y-%m-%d") for a year of four digits.
strftime(date) ==
    ZeroPadded(date.year, 4) \o <<"-">> \o ZeroPadded(date.month, 2) \o <<"-">>
        \o ZeroPadded(date.day, 2)

\* The character at position i of chars, "" past its end.
At(chars, i) == IF i \in DOMAIN chars THEN chars[i] ELSE ""

IsLeap(year) == (year % 4 = 0 /\ year % 100 # 0) \/ year % 400 = 0

DaysInMonth(year, month) ==
    IF month = 2 THEN (IF IsLeap(year) THEN 29 ELSE 28)
    ELSE IF month \in {4, 6, 9, 11} THEN 30
    ELSE 31

\* datetime.date(year, month, day) accepts these values only (MINYEAR is 1).
IsValidDate(year, month, day) ==
    /\ year \in 1..9999
    /\ month \in 1..12
    /\ day \in 1..DaysInMonth(year, month)

\* The alternatives of %m, 1[0-2]|0[1-9]|[1-9], that match at position p:
\* their lengths, in the order the regular expression tries them.
MonthMatches(chars, p) ==
    (IF At(chars, p) = "1" /\ At(chars, p + 1) \in {"0", "1", "2"} THEN <<2>> ELSE <<>>)
    \o (IF At(chars, p) = "0" /\ IsDigit(At(chars, p + 1)) /\ At(chars, p + 1) # "0"
        THEN <<2>> ELSE <<>>)
    \o (IF IsDigit(At(chars, p)) /\ At(chars, p) # "0" THEN <<1>> ELSE <<>>)

\* The alternatives of %d, 3[01]|[12]\d|0[1-9]|[1-9]| [1-9], likewise.
DayMatches(chars, p) ==
    (IF At(chars, p) = "3" /\ At(chars, p + 1) \in {"0", "1"} THEN <<2>> ELSE <<>>)
    \o (IF At(chars, p) \in {"1", "2"} /\ IsDigit(At(chars, p + 1)) THEN <<2>> ELSE <<>>)
    \o (IF At(chars, p) = "0" /\ IsDigit(At(chars, p + 1)) /\ At(chars, p + 1) # "0"
        THEN <<2>> ELSE <<>>)
    \o (IF IsDigit(At(chars, p)) /\ At(chars, p) # "0" THEN <<1>> ELSE <<>>)
    \o (IF At(chars, p) = " " /\ IsDigit(At(chars, p + 1)) /\ At(chars, p + 1) # "0"
        THEN <<2>> ELSE <<>>)

\* datetime.datetime.strptime(chars, "%Y-%m-%d").date(): the match of
\* (\d\d\d\d)-(%m)-(%d) at the start of chars, the first alternative of %m
\* after which the rest matches, then the first of %d; ValueError when there
\* is no match, when text remains after it, or when the date does not exist.
strptime(chars) ==
    LET months == MonthMatches(chars, 6)
        fits(k) == At(chars, 6 + months[k]) = "-" /\ DayMatches(chars, 7 + months[k]) # <<>>
    IN IF ~(/\ \A i \in 1..4 : IsDigit(At(chars, i))
            /\ At(chars, 5) = "-"
            /\ \E k \in DOMAIN months : fits(k))
       THEN Raised("ValueError")
       ELSE LET k == CHOOSE k \in DOMAIN months : fits(k) /\ \A j \in 1..(k - 1) : ~fits(j)
                m_len == months[k]
                d_len == Head(DayMatches(chars, 7 + m_len))
                d_first == IF At(chars, 7 + m_len) = " " THEN 8 + m_len ELSE 7 + m_len
                year == DigitsValue(SubSeq(chars, 1, 4))
                month == DigitsValue(SubSeq(chars, 6, 5 + m_len))
                day == DigitsValue(SubSeq(chars, d_first, 6 + m_len + d_len))
            IN IF Len(chars) # 6 + m_len + d_len THEN Raised("ValueError")
               ELSE IF ~IsValidDate(year, month, day) THEN Raised("ValueError")
               ELSE Returned([year |-> year, month |-> month, day |-> day])

(***************************************************************************)
(* is_mega_da_virada                                                       *)
(***************************************************************************)
\* A Python value: [type |-> "str", chars |-> ...], [type |-> "date" or
\* "datetime", date |-> ...], or [type |-> t] for any other type t.
StrVal(chars) == [type |-> "str", chars |-> chars]

IsViradaDateAfterFirst(date_obj) ==
    date_obj.month = 12 /\ date_obj.day = 31 /\ date_obj.year > FirstViradaYear

\* The return expression of is_mega_da_virada.
IsViradaDate(date_obj) ==
    date_obj.month = 12 /\ date_obj.day = 31 /\ date_obj.year >= FirstViradaYear

is_mega_da_virada(date_val) ==
    IF date_val.type = "str"
    THEN LET parsed == strptime(date_val.chars)
         IN IF parsed.status = "raised" THEN Returned(FALSE)
            ELSE Returned(IsViradaDate(parsed.value))
    ELSE IF date_val.type \in {"date", "datetime"}
    THEN Returned(IsViradaDate(date_val.date))
    ELSE Returned(FALSE)

(***************************************************************************)
(* generate_game_logic                                                     *)
(***************************************************************************)
needed(fixed_numbers) == GameSize - Len(fixed_numbers)

possible_numbers_all(fixed_numbers) == Numbers

possible_numbers(fixed_numbers) == {n \in Numbers : n \notin Range(fixed_numbers)}

\* random.sample(population, k): every list of k distinct elements of the
\* population is a possible outcome; ValueError when k is negative or larger
\* than the population.  The outcomes explored are those within Pool.
sample(population, k) ==
    IF k < 0 \/ k > Cardinality(population) THEN {Raised("ValueError")}
    ELSE {Returned(s) : s \in DistinctLists(population \cap Pool, k)}

generate_game_logic(fixed_numbers, random_part) == sorted(fixed_numbers \o random_part)

\* The outcomes of one call of generate_game_logic.
GenerateOutcomes(fixed_numbers) ==
    {IF r.status = "raised" THEN r
     ELSE Returned(generate_game_logic(fixed_numbers, r.value)) :
        r \in sample(possible_numbers(fixed_numbers), needed(fixed_numbers))}

(***************************************************************************)
(* The store and its read cache                                            *)
(***************************************************************************)
TableNames == {"generated_games", "official_draws"}

NoEntry == [cached |-> FALSE]

EmptyCache == [t \in TableNames |-> NoEntry]

EmptyStore ==
    /\ official_draws = <<>>
    /\ generated_games = <<>>
    /\ current_games = <<>>
    /\ cache = EmptyCache

\* INSERT of a row into official_draws, whose rowid is contest_number: the
\* rows stay in contest_number order, which is the order SELECT * reads them.
InsertDraw(table, row) ==
    LET before == {i \in DOMAIN table : table[i].contest_number < row.contest_number}
        n == Cardinality(before)
    IN SubSeq(table, 1, n) \o <<row>> \o SubSeq(table, n + 1, Len(table))

OfficialRow(contest, date, numbers) ==
    [contest_number |-> contest, date |-> strftime(date), numbers |-> numbers_str(numbers)]

\* The effect INSERT OR REPLACE would have.
save_official_draw_replacing(table, contest, date, numbers) ==
    LET kept == {i \in DOMAIN table : table[i].contest_number # contest}
        rest == [j \in 1..Cardinality(kept) |->
                    table[CHOOSE i \in kept : Cardinality({k \in kept : k < i}) = j - 1]]
    IN [table |-> InsertDraw(rest, OfficialRow(contest, date, numbers)), value |-> TRUE]

\* save_official_draw: the table afterwards and the value returned; the
\* primary key of a stored row raises IntegrityError, which returns False.
save_official_draw(table, contest, date, numbers) ==
    IF \E i \in DOMAIN table : table[i].contest_number = contest
    THEN [table |-> table, value |-> FALSE]
    ELSE [table |-> InsertDraw(table, OfficialRow(contest, date, numbers)), value |-> TRUE]

save_generated_games_all_bets(table, games_data, current_time) ==
    table \o [i \in DOMAIN games_data |->
                [id |-> Len(table) + i,
                 date |-> current_time,
                 numbers |-> numbers_str(games_data[i].numbers),
                 is_bet |-> 1]]

\* save_generated_games: one row per (numbers, is_bet) of games_data, in
\* order, with the next ids of the AUTOINCREMENT key.
save_generated_games(table, games_data, current_time) ==
    table \o [i \in DOMAIN games_data |->
                [id |-> Len(table) + i,
                 date |-> current_time,
                 numbers |-> numbers_str(games_data[i].numbers),
                 is_bet |-> IF games_data[i].is_bet THEN 1 ELSE 0]]

StoredTable(table_name) ==
    IF table_name = "official_draws" THEN official_draws ELSE generated_games

\* get_data under st.cache_data: the cached rows when there are any, else
\* the table as read now, which is then cached.
get_data(c, table_name, table) ==
    IF c[table_name].cached
    THEN [cache |-> c, value |-> c[table_name].rows]
    ELSE [cache |-> [c EXCEPT ![table_name] = [cached |-> TRUE, rows |-> table]],
          value |-> table]

(***************************************************************************)
(* Matching: the simulation tab and the dashboard's conference tab         *)
(***************************************************************************)
\* set(list)
set(list) == Range(list)

hits_of_union(a, b) == Cardinality(a \cup b)

\* len(a.intersection(b)) of two sets
hits_count(a, b) == Cardinality(a \cap b)

reportable_from_four(hits) == hits >= MinReportedHits + 1

\* The simulation keeps a draw with this many hits.
reportable(hits) == hits >= MinReportedHits

simulate_sort_oldest_first(results) ==
    Items(SortDescending([i \in DOMAIN results |->
        [key |-> <<results[i].hits, 0 - results[i].contest>>, item |-> results[i]]]))

\* results.sort(key=lambda x: (x["hits"], x["contest"]), reverse=True)
simulate_sort(results) ==
    Items(SortDescending([i \in DOMAIN results |->
        [key |-> <<results[i].hits, results[i].contest>>, item |-> results[i]]]))

\* The loop of the simulation tab over the rows of df; ValueError when the
\* numbers of a row do not parse.
simulate_results(df, sim_nums) ==
    LET user_set == set(sim_nums)
        parsed == [i \in DOMAIN df |-> parse_numbers_from_str(df[i].numbers)]
        entry(i) ==
            LET draw_nums == parsed[i].value
                intersection == user_set \cap set(draw_nums)
            IN [contest |-> df[i].contest_number,
                date |-> df[i].date,
                draw_nums |-> sorted(draw_nums),
                hits |-> hits_count(user_set, set(draw_nums)),
                matched_nums |-> intersection]
    IN IF \E i \in DOMAIN df : parsed[i].status = "raised" THEN Raised("ValueError")
       ELSE Returned(simulate_sort(
                SelectSeq([i \in DOMAIN df |-> entry(i)], LAMBDA e : reportable(e.hits))))

passes_above_min_hits(hits, min_hits) == hits > min_hits

\* The conference keeps a game with this many hits.
passes_min_hits(hits, min_hits) == hits >= min_hits

conference_sort_by_hits(results) ==
    Items(SortDescending([i \in DOMAIN results |->
        [key |-> <<results[i].hits>>, item |-> results[i]]]))

\* results.sort(key=lambda x: (x["hits"], x["is_bet"]), reverse=True)
conference_sort(results) ==
    Items(SortDescending([i \in DOMAIN results |->
        [key |-> <<results[i].hits, results[i].is_bet>>, item |-> results[i]]]))

\* The loop of the conference tab over the rows of df_gen, for the numbers
\* of the selected draw.
conference_results(df_gen, draw_nums, min_hits) ==
    LET parsed == [i \in DOMAIN df_gen |-> parse_numbers_from_str(df_gen[i].numbers)]
        entry(i) ==
            LET game_nums == parsed[i].value
                matches == set(game_nums) \cap draw_nums
            IN [id |-> df_gen[i].id,
                date |-> df_gen[i].date,
                numbers |-> game_nums,
                matches |-> matches,
                hits |-> hits_count(set(game_nums), draw_nums),
                is_bet |-> df_gen[i].is_bet]
    IN IF \E i \in DOMAIN df_gen : parsed[i].status = "raised" THEN Raised("ValueError")
       ELSE Returned(conference_sort(
                SelectSeq([i \in DOMAIN df_gen |-> entry(i)],
                          LAMBDA e : passes_min_hits(e.hits, min_hits))))

(***************************************************************************)
(* Combination frequencies: the dashboard's third tab                      *)
(***************************************************************************)
\* itertools.combinations(list, k): the k-tuples of list's elements, in
\* position order, as tuples in lexicographic order of position.
RECURSIVE combinations(_, _)
combinations(list, k) ==
    IF k = 0 THEN <<<<>>>>
    ELSE IF Len(list) < k THEN <<>>
    ELSE LET with_head == combinations(Tail(list), k - 1)
         IN [i \in DOMAIN with_head |-> <<Head(list)>> \o with_head[i]]
                \o combinations(Tail(list), k)

RECURSIVE Concat(_)
Concat(lists) == IF lists = <<>> THEN <<>> ELSE Head(lists) \o Concat(Tail(lists))

\* all_ngrams: the combinations of each draw, sorted first, draw after draw.
all_ngrams(official_draws_list, ngram_size) ==
    Concat([i \in DOMAIN official_draws_list |->
               combinations(sorted(official_draws_list[i]), ngram_size)])

Counter_of_presence(list) ==
    LET first_seen == SelectSeq([i \in DOMAIN list |-> i],
                                LAMBDA i : \A j \in 1..(i - 1) : list[j] # list[i])
    IN [n \in DOMAIN first_seen |-> [combo |-> list[first_seen[n]], count |-> 1]]

\* Counter(list): the distinct elements in first-seen order, each with the
\* number of its occurrences.
Counter(list) ==
    LET first_seen == SelectSeq([i \in DOMAIN list |-> i],
                                LAMBDA i : \A j \in 1..(i - 1) : list[j] # list[i])
    IN [n \in DOMAIN first_seen |->
           [combo |-> list[first_seen[n]],
            count |-> Cardinality({j \in DOMAIN list : list[j] = list[first_seen[n]]})]]

Prefix(list, n) == SubSeq(list, 1, IF Len(list) < n THEN Len(list) ELSE n)

most_common_unordered(counter, n) == Prefix(counter, n)

\* Counter.most_common(n): by count descending, equal counts in first-seen
\* order, the first n.
most_common(counter, n) ==
    Prefix(Items(SortDescending([i \in DOMAIN counter |->
        [key |-> <<counter[i].count>>, item |-> counter[i]]])), n)

\* ", ".join([f"{n:02d}" for n in combo])
combo_str(combo) == join(<<",", " ">>, [i \in DOMAIN combo |-> ZeroPadded(combo[i], 2)])

ngram_table_with_placeholder(official_draws_list, ngram_size) ==
    IF all_ngrams(official_draws_list, ngram_size) = <<>>
    THEN <<[combo |-> <<>>, count |-> 0]>>
    ELSE most_common(Counter(all_ngrams(official_draws_list, ngram_size)), TopCombinations)

\* ngram_counts: the top combinations, none when there are no n-grams.
ngram_table(official_draws_list, ngram_size) ==
    IF all_ngrams(official_draws_list, ngram_size) = <<>> THEN <<>>
    ELSE most_common(Counter(all_ngrams(official_draws_list, ngram_size)), TopCombinations)

(***************************************************************************)
(* import_official_data_from_excel                                         *)
(***************************************************************************)
\* Cells of the sheet as Python values: an int, a float (NaN for an empty
\* cell, else its whole part and its tenths), a str, a date, a time of day.
IntCell(n) == [type |-> "int", value |-> n]

FloatCell(whole, tenths) == [type |-> "float", nan |-> FALSE, whole |-> whole, tenths |-> tenths]

NaN == [type |-> "float", nan |-> TRUE]

DateCell(year, month, day) ==
    [type |-> "datetime", date |-> [year |-> year, month |-> month, day |-> day]]

TimeCell == [type |-> "time"]

\* int(val) of a cell: an int as it is, a float cut to its whole part and
\* ValueError for NaN, a str as int(chars), TypeError for any other type.
int_of(val) ==
    IF val.type = "int" THEN Returned(val.value)
    ELSE IF val.type = "float"
    THEN (IF val.nan THEN Raised("ValueError") ELSE Returned(val.whole))
    ELSE IF val.type = "str" THEN int(val.chars)
    ELSE Raised("TypeError")

\* datetime.datetime.strptime(chars, "%d/%m/%Y").date(): the match of
\* (%d)/(%m)/(\d\d\d\d) at the start of chars, the first alternative of %d
\* and then of %m after which the rest matches; ValueError when there is no
\* match, when text remains after it, or when the date does not exist.
strptime_dmy(chars) ==
    LET days == DayMatches(chars, 1)
        month_fits(p, m_len) ==
            /\ At(chars, p + m_len) = "/"
            /\ \A i \in 1..4 : IsDigit(At(chars, p + m_len + i))
        months_at(p) == SelectSeq(MonthMatches(chars, p), LAMBDA m_len : month_fits(p, m_len))
        day_fits(k) == At(chars, 1 + days[k]) = "/" /\ months_at(2 + days[k]) # <<>>
    IN IF ~\E k \in DOMAIN days : day_fits(k) THEN Raised("ValueError")
       ELSE LET k == CHOOSE k \in DOMAIN days : day_fits(k) /\ \A j \in 1..(k - 1) : ~day_fits(j)
                d_len == days[k]
                m_len == Head(months_at(2 + d_len))
                d_first == IF At(chars, 1) = " " THEN 2 ELSE 1
                day == DigitsValue(SubSeq(chars, d_first, d_len))
                month == DigitsValue(SubSeq(chars, 2 + d_len, 1 + d_len + m_len))
                year == DigitsValue(SubSeq(chars, 3 + d_len + m_len, 6 + d_len + m_len))
            IN IF Len(chars) # 6 + d_len + m_len THEN Raised("ValueError")
               ELSE IF ~IsValidDate(year, month, day) THEN Raised("ValueError")
               ELSE Returned([year |-> year, month |-> month, day |-> day])

\* The date of the fallback, datetime.date(1900, 1, 1).
FallbackDate == [year |-> 1900, month |-> 1, day |-> 1]

\* date_obj of a row: the parse of a str, a date or datetime as it is, the
\* fallback for any other type; ValueError from the parse.
import_date(raw_date) ==
    IF raw_date.type = "str" THEN strptime_dmy(raw_date.chars)
    ELSE IF raw_date.type \in {"date", "datetime"} THEN Returned(raw_date.date)
    ELSE Returned(FallbackDate)

\* numbers of a row: int(val) of each of the six cells, a ValueError passed
\* over; any other exception of int leaves the loop and the function.
import_numbers(bolas) ==
    LET converted == [i \in DOMAIN bolas |-> int_of(bolas[i])]
        kept == SelectSeq(converted, LAMBDA c : c.status = "returned")
    IN IF \E i \in DOMAIN converted : converted[i] = Raised("TypeError")
       THEN Raised("TypeError")
       ELSE Returned([i \in DOMAIN kept |-> kept[i].value])

\* The counts after save_official_draw returned success for a row.
added_after_save(success, added_count) == IF success THEN added_count + 1 ELSE added_count

skipped_after_save_uncounted(success, skipped_count) == skipped_count

skipped_after_save(success, skipped_count) ==
    IF success THEN skipped_count ELSE skipped_count + 1

\* The loop over the rows of the sheet, from the counts so far: the table
\* afterwards and either the counts returned or the exception raised.
RECURSIVE import_rows(_, _, _, _)
import_rows(table, rows, added_count, skipped_count) ==
    IF rows = <<>>
    THEN [table |-> table,
          value |-> Returned([added |-> added_count, skipped |-> skipped_count,
                              error |-> "None"])]
    ELSE LET row == Head(rows)
             date_obj == import_date(row.Data)
             numbers == import_numbers(row.bolas)
         IN IF date_obj.status = "raised"
            THEN import_rows(table, Tail(rows), added_count, skipped_count + 1)
            ELSE IF numbers.status = "raised" THEN [table |-> table, value |-> numbers]
            ELSE IF Len(numbers.value) = GameSize
            THEN LET saved == save_official_draw(table, row.Concurso, date_obj.value,
                                                 numbers.value)
                 IN import_rows(saved.table, Tail(rows),
                                added_after_save(saved.value, added_count),
                                skipped_after_save(saved.value, skipped_count))
            ELSE import_rows(table, Tail(rows), added_count, skipped_count + 1)

\* The columns the sheet must have.
required_cols ==
    {"Concurso", "Data", "bola 1", "bola 2", "bola 3", "bola 4", "bola 5", "bola 6"}

\* import_official_data_from_excel on a source: a file that cannot be read,
\* or a sheet with its columns and rows.
import_official_data_from_excel(table, file_source) ==
    IF ~file_source.readable
    THEN [table |-> table,
          value |-> Returned([added |-> 0, skipped |-> 0, error |-> "Erro ao ler"])]
    ELSE IF ~(required_cols \subseteq file_source.columns)
    THEN [table |-> table,
          value |-> Returned([added |-> 0, skipped |-> 0, error |-> "Colunas faltando"])]
    ELSE import_rows(table, file_source.rows, 0, 0)

(***************************************************************************)
(* SpecGenerate: generate_game_logic on every list of at most MaxFixed     *)
(* distinct numbers of Pool.                                               *)
(***************************************************************************)
FixedLists == UNION {DistinctLists(Pool, n) : n \in 0..MaxFixed}

InitGenerate ==
    /\ EmptyStore
    /\ call \in {[op |-> "generate_game_logic", fixed_numbers |-> f] : f \in FixedLists}
    /\ ret = NotRun

CallGenerateGameLogic ==
    /\ call.op = "generate_game_logic"
    /\ ret = NotRun
    /\ ret' \in GenerateOutcomes(call.fixed_numbers)
    /\ UNCHANGED <<official_draws, generated_games, current_games, cache, call>>

NextGenerate == CallGenerateGameLogic

SpecGenerate == InitGenerate /\ [][NextGenerate]_vars

\* C1: for every list fixed of at most 5 distinct integers of [1,60],
\* generate_game_logic(fixed) returns exactly 6 distinct integers, all in
\* [1,60], and every element of fixed is in the result.
C1_GenerateValid ==
    (call.op = "generate_game_logic" /\ ret # NotRun) =>
        /\ ret.status = "returned"
        /\ Len(ret.value) = GameSize
        /\ IsDistinct(ret.value)
        /\ Range(ret.value) \subseteq Numbers
        /\ Range(call.fixed_numbers) \subseteq Range(ret.value)

C1_Witness ==
    /\ call.op = "generate_game_logic"
    /\ Len(call.fixed_numbers) = MaxFixed
    /\ LastNumber \in Range(call.fixed_numbers)
    /\ ret.status = "returned"
    /\ Len(ret.value) = GameSize

(***************************************************************************)
(* Spec: the pages' handlers on the store and the session.                 *)
(***************************************************************************)
\* Contest numbers entered are 1..MaxContest.
MaxContest == 3

\* generated_games is filled up to MaxRows rows.
MaxRows == 2

QtdChoices == {1, 2}

\* Values of the multiselect of fixed numbers: five numbers in selection
\* order, and six, which the page rejects.
FixedSelections == {<<LastNumber, 2, 1, 3, 4>>, <<1, 2, 3, 4, 5, 6>>}

CurrentTimes == {"2026-01-01 10:00:00"}

\* Values of the manual registration form: a date and the multiselect of
\* numbers in selection order; the last has five numbers.
DrawInputs ==
    {[draw_date |-> [year |-> 2009, month |-> 12, day |-> 31],
      drawn_nums |-> <<4, LastNumber, 2, 1, 3, 5>>],
     [draw_date |-> [year |-> 2020, month |-> 6, day |-> 15],
      drawn_nums |-> <<1, 2, 3, 4, 5, 6>>],
     [draw_date |-> [year |-> 2008, month |-> 12, day |-> 31],
      drawn_nums |-> <<10, 3, 2, 1, 9, 8>>],
     [draw_date |-> [year |-> 2020, month |-> 6, day |-> 15],
      drawn_nums |-> <<1, 2, 3, 4, 5>>]}

Init ==
    /\ EmptyStore
    /\ call = [op |-> "start"]
    /\ ret = NotRun

fixed_numbers_extended(fixed_numbers, random_part) == fixed_numbers \o random_part

\* The caller's list after a call of generate_game_logic: the call builds
\* new lists (fixed_numbers + random_part, sorted(full_game)) and leaves its
\* argument as it was.
fixed_numbers_after(fixed_numbers, random_part) == fixed_numbers

RECURSIVE generate_games(_, _, _)
\* The loop of "GERAR JOGOS": the possible outcomes of qtd_apostas calls of
\* generate_game_logic in a row on the list fixed_selection, after the games
\* of games_list; each outcome has the games and the list as the calls left
\* it, or is the exception of the call that raised.
generate_games(fixed_selection, qtd_apostas, games_list) ==
    IF qtd_apostas = 0
    THEN {[status |-> "returned", value |-> games_list,
           fixed_selection |-> fixed_selection]}
    ELSE UNION {IF r.status = "raised" THEN {r}
                ELSE generate_games(fixed_numbers_after(fixed_selection, r.value),
                                    qtd_apostas - 1,
                                    Append(games_list,
                                           generate_game_logic(fixed_selection, r.value))) :
                   r \in sample(possible_numbers(fixed_selection), needed(fixed_selection))}

too_many_fixed_never(fixed_selection) == FALSE

\* The check of the multiselect that ends the page before its button.
too_many_fixed(fixed_selection) == Len(fixed_selection) > MaxFixed

\* page_generator, "GERAR JOGOS" pressed with qtd_apostas in the number
\* input and fixed_selection in the multiselect.
Generate(qtd_apostas, fixed_selection) ==
    /\ call' = [op |-> "generate", qtd_apostas |-> qtd_apostas,
                fixed_selection |-> fixed_selection]
    /\ IF too_many_fixed(fixed_selection)
       THEN /\ ret' = [status |-> "rejected"]
            /\ UNCHANGED current_games
       ELSE \E done \in generate_games(fixed_selection, qtd_apostas, <<>>) :
                IF done.status = "raised"
                THEN /\ ret' = done
                     /\ UNCHANGED current_games
                ELSE /\ ret' = [status |-> "rendered",
                                fixed_selection |-> done.fixed_selection]
                     /\ current_games' = done.value
    /\ UNCHANGED <<official_draws, generated_games, cache>>

\* page_generator, "Confirmar e Salvar" submitted with the checkboxes as in
\* selections.
ConfirmSave(selections, current_time) ==
    /\ current_games # <<>>
    /\ Len(generated_games) + Len(current_games) <= MaxRows
    /\ LET games_data == [idx \in DOMAIN selections |->
                             [numbers |-> current_games[idx], is_bet |-> selections[idx]]]
       IN generated_games' = save_generated_games(generated_games, games_data, current_time)
    /\ current_games' = <<>>
    /\ cache' = EmptyCache
    /\ call' = [op |-> "confirm_save", selections |-> selections]
    /\ ret' = [status |-> "rendered"]
    /\ UNCHANGED official_draws

\* page_official_draws, "Salvar Resultado" pressed; the rest of the page
\* then runs, and its last tab reads official_draws through get_data.
RegisterDraw(contest_num, draw_date, drawn_nums) ==
    /\ call' = [op |-> "register_draw", contest_num |-> contest_num]
    /\ IF Len(drawn_nums) # GameSize
       THEN /\ ret' = [status |-> "rejected"]
            /\ UNCHANGED official_draws
            /\ cache' = get_data(cache, "official_draws", official_draws).cache
       ELSE LET saved == save_official_draw(official_draws, contest_num, draw_date, drawn_nums)
                cleared == IF saved.value THEN EmptyCache ELSE cache
            IN /\ official_draws' = saved.table
               /\ ret' = Returned(saved.value)
               /\ cache' = get_data(cleared, "official_draws", saved.table).cache
    /\ UNCHANGED <<generated_games, current_games>>

Rendered(message, results) ==
    [status |-> "rendered", message |-> message, results |-> results]

\* page_official_draws, "Consultar Resultados Passados" pressed with
\* sim_nums selected; the last tab of the page then reads official_draws
\* through get_data.
Simulate(sim_nums) ==
    /\ call' = [op |-> "simulate", sim_nums |-> sim_nums]
    /\ LET got == get_data(cache, "official_draws", official_draws)
           found == simulate_results(got.value, sim_nums)
       IN /\ cache' = got.cache
          /\ ret' = IF Len(sim_nums) < MinSimulate THEN [status |-> "rejected"]
                    ELSE IF got.value = <<>> THEN Rendered("warning", <<>>)
                    ELSE IF found.status = "raised" THEN found
                    ELSE IF found.value = <<>> THEN Rendered("info", <<>>)
                    ELSE Rendered("success", found.value)
    /\ UNCHANGED <<official_draws, generated_games, current_games>>

\* df_off after the "Apenas Mega da Virada" filter of page_dashboard.
filtered_draws(df_off, filter_virada) ==
    IF filter_virada
    THEN SelectSeq(df_off, LAMBDA row : is_mega_da_virada(StrVal(row.date)).value)
    ELSE df_off

\* official_draws_list: the numbers of each row of df_off.
official_draws_list(df_off) ==
    [i \in DOMAIN df_off |-> parse_numbers_from_str(df_off[i].numbers).value]

\* The row of df_off the select box holds: the one of contest selected.
selected_draw_data(df_off, selected) ==
    df_off[CHOOSE i \in DOMAIN df_off : df_off[i].contest_number = selected]

\* The conference tab of page_dashboard.
conference_tab(df_gen, df_off, selected, min_hits) ==
    IF df_off = <<>> THEN Rendered("no draws", <<>>)
    ELSE IF df_gen = <<>> THEN Rendered("no games", <<>>)
    ELSE LET draw == parse_numbers_from_str(selected_draw_data(df_off, selected).numbers)
             found == conference_results(df_gen, set(draw.value), min_hits)
         IN IF draw.status = "raised" THEN draw
            ELSE IF found.status = "raised" THEN found
            ELSE Rendered("results", found.value)

data_list(ngram_counts) ==
    [i \in DOMAIN ngram_counts |->
        [Combinacao |-> combo_str(ngram_counts[i].combo),
         Frequencia |-> ngram_counts[i].count]]

combinations_tab_with_placeholder(df_off, ngram_size) ==
    LET ngram_counts == ngram_table_with_placeholder(official_draws_list(df_off), ngram_size)
    IN [status |-> "rendered", message |-> "chart", ngram_counts |-> ngram_counts,
        data_list |-> data_list(ngram_counts)]

\* The combinations tab of page_dashboard: a warning without official
\* numbers, else the table of the top combinations, or a note when there is
\* no combination.
combinations_tab(df_off, ngram_size) ==
    IF df_off = <<>>
    THEN [status |-> "rendered", message |-> "warning", ngram_counts |-> <<>>,
          data_list |-> <<>>]
    ELSE LET ngram_counts == ngram_table(official_draws_list(df_off), ngram_size)
         IN [status |-> "rendered",
             message |-> IF ngram_counts = <<>> THEN "info" ELSE "chart",
             ngram_counts |-> ngram_counts,
             data_list |-> data_list(ngram_counts)]

\* page_dashboard with its widgets at these values: the Virada check box,
\* the contest of the select box, the radio of minimum hits and the radio
\* of the combination size.  The select box and the first radio exist only
\* with draws and games to compare.
Dashboard(filter_virada, selected, min_hits, ngram_size) ==
    \E gen \in {get_data(cache, "generated_games", generated_games)} :
    \E off \in {get_data(gen.cache, "official_draws", official_draws)} :
    \E df_gen \in {gen.value}, df_off \in {filtered_draws(off.value, filter_virada)} :
       /\ IF df_off = <<>> \/ df_gen = <<>>
          THEN selected = 0 /\ min_hits = 1
          ELSE \E i \in DOMAIN df_off : df_off[i].contest_number = selected
       /\ \E conference \in {conference_tab(df_gen, df_off, selected, min_hits)} :
             /\ call' = [op |-> "dashboard", filter_virada |-> filter_virada,
                         selected |-> selected, min_hits |-> min_hits,
                         ngram_size |-> ngram_size]
             /\ cache' = off.cache
             /\ ret' = IF conference.status = "raised" THEN conference
                       ELSE [status |-> "rendered",
                             conference |-> conference,
                             combinations |-> combinations_tab(df_off, ngram_size)]
             /\ UNCHANGED <<official_draws, generated_games, current_games>>

MinHitsChoices == 1..6

NgramSizes == {2, 3, 4, 5}

\* Values of the simulation multiselect within the pages of Spec.
SimulateInputs == {<<1, 2, 3, 4, 5>>, <<5, 4, 3, 2, 1, LastNumber>>}

NextGames ==
    \/ \E q \in QtdChoices, f \in FixedSelections : Generate(q, f)
    \/ \E t \in CurrentTimes :
           \E sel \in [DOMAIN current_games -> BOOLEAN] : ConfirmSave(sel, t)

NextDraws ==
    \/ \E c \in 1..MaxContest, d \in DrawInputs : RegisterDraw(c, d.draw_date, d.drawn_nums)
    \/ \E sim_nums \in SimulateInputs : Simulate(sim_nums)

NextDashboard ==
    \E filter_virada \in BOOLEAN, selected \in 0..MaxContest, min_hits \in MinHitsChoices :
        Dashboard(filter_virada, selected, min_hits, 2)

Next == NextGames \/ NextDraws \/ NextDashboard

Spec == Init /\ [][Next]_vars

\* The official-draws page alone.
SpecDraws == Init /\ [][NextDraws]_vars

\* C2: save_official_draw with a contest_number already in official_draws
\* returns False and leaves the store unchanged: the same rows, each with
\* its date and numbers.
C2_DuplicateRejected ==
    [][\A c \in 1..MaxContest, d \in DrawInputs :
          (/\ RegisterDraw(c, d.draw_date, d.drawn_nums)
           /\ Len(d.drawn_nums) = GameSize
           /\ \E i \in DOMAIN official_draws : official_draws[i].contest_number = c)
          => (/\ ret' = Returned(FALSE)
              /\ official_draws' = official_draws
              /\ generated_games' = generated_games)]_vars

\* A duplicate was rejected: the contest registered last was refused, and
\* its stored row is the one of the other form value.
C2_Witness ==
    /\ call.op = "register_draw"
    /\ ret = Returned(FALSE)
    /\ \E i \in DOMAIN official_draws :
          /\ official_draws[i].contest_number = call.contest_num
          /\ official_draws[i].date = strftime([year |-> 2009, month |-> 12, day |-> 31])

(***************************************************************************)
(* Stores the pages are run on                                             *)
(***************************************************************************)
\* The store holds at most MaxStoredDraws of the known draws.
MaxStoredDraws == 3

\* generated_games holds at most MaxStoredGames of the known games.
MaxStoredGames == 4

\* Official draws as registered: contest, date and the numbers in the order
\* they were entered.
KnownDraws ==
    {[contest |-> 1, date |-> [year |-> 2008, month |-> 12, day |-> 31],
      numbers |-> <<6, 5, 4, 3, 2, 1>>],
     [contest |-> 2, date |-> [year |-> 2009, month |-> 12, day |-> 31],
      numbers |-> <<1, 2, 3, 7, 8, 9>>],
     [contest |-> 3, date |-> [year |-> 2020, month |-> 6, day |-> 15],
      numbers |-> <<LastNumber, 1, 2, 3, 4, 5>>],
     [contest |-> 4, date |-> [year |-> 2020, month |-> 12, day |-> 31],
      numbers |-> <<4, 5, 6, 7, 8, 9>>],
     [contest |-> 5, date |-> [year |-> 2021, month |-> 1, day |-> 2],
      numbers |-> <<10, 20, 30, 40, 50, LastNumber>>]}

\* The table after save_official_draw of each draw of a set.
RECURSIVE StoreOf(_)
StoreOf(draws) ==
    IF draws = {} THEN <<>>
    ELSE LET d == CHOOSE d \in draws : TRUE
         IN save_official_draw(StoreOf(draws \ {d}), d.contest, d.date, d.numbers).table

KnownStores == {StoreOf(D) : D \in {D \in SUBSET KnownDraws : Cardinality(D) <= MaxStoredDraws}}

\* Generated games as confirmed: the numbers and the check box.
KnownGames ==
    <<[numbers |-> <<1, 2, 3, 4, 5, 6>>, is_bet |-> FALSE],
      [numbers |-> <<1, 2, 3, 4, 7, 8>>, is_bet |-> TRUE],
      [numbers |-> <<1, 2, 3, 7, 8, 9>>, is_bet |-> FALSE],
      [numbers |-> <<1, 2, 3, 4, 5, 7>>, is_bet |-> TRUE],
      [numbers |-> <<1, 2, 3, 4, 5, 8>>, is_bet |-> FALSE]>>

\* The tables after save_generated_games of at most MaxStoredGames distinct
\* known games, in any order.
KnownGameTables ==
    {save_generated_games(<<>>, [i \in DOMAIN picks |-> KnownGames[picks[i]]],
                          "2026-01-01 10:00:00") :
        picks \in UNION {DistinctLists(DOMAIN KnownGames, n) : n \in 0..MaxStoredGames}}

\* The numbers a known draw of this contest was registered with.
RegisteredNumbers(contest) == (CHOOSE d \in KnownDraws : d.contest = contest).numbers

\* The numbers a known game stored as this text was generated with.
GeneratedNumbers(text) ==
    KnownGames[CHOOSE i \in DOMAIN KnownGames : numbers_str(KnownGames[i].numbers) = text].numbers

\* The number of positions of list a whose number occurs in list b.
CommonCount(a, b) == Cardinality({i \in DOMAIN a : \E j \in DOMAIN b : b[j] = a[i]})

\* The caches of a session over tables that were not written since: no
\* table read yet, or each cached with its rows.
WarmOrCold(draws, games) ==
    {EmptyCache,
     [t \in TableNames |->
        [cached |-> TRUE, rows |-> IF t = "official_draws" THEN draws ELSE games]]}

(***************************************************************************)
(* SpecSimulate: the simulation tab on the known stores.                   *)
(***************************************************************************)
\* The numbers in the order of the selections: every run of 5 to
\* MaxSelections consecutive ones is a value of the multiselect.
SelectionOrder == <<9, 1, 2, 3, 4, 5, 6, 7, 8, LastNumber, 10, 20, 30, 40, 50, 11, 12>>

SimSelections ==
    UNION {{SubSeq(SelectionOrder, i, i + n - 1) : i \in 1..(Len(SelectionOrder) - n + 1)} :
              n \in (MinSimulate - 1)..MaxSelections}

\* The tables are as stored and each is either not cached or cached as it is.
InitSimulate ==
    /\ official_draws \in KnownStores
    /\ generated_games = <<>>
    /\ current_games = <<>>
    /\ cache \in WarmOrCold(official_draws, generated_games)
    /\ call = [op |-> "start"]
    /\ ret = NotRun

\* One press of the button on each store.
NextSimulate == call.op = "start" /\ \E sim_nums \in SimSelections : Simulate(sim_nums)

SpecSimulate == InitSimulate /\ [][NextSimulate]_vars

\* C3: the hit count of a selection of 6 to 15 numbers against a draw is the
\* cardinality of the intersection of the two, so a selection scored against
\* itself has as many hits as it has numbers.
C3_HitsAreIntersection ==
    (call.op = "simulate" /\ Len(call.sim_nums) >= MinSimulate) =>
        /\ ret.status = "rendered"
        /\ hits_count(set(call.sim_nums), set(call.sim_nums)) = Len(call.sim_nums)
        /\ \A i \in DOMAIN ret.results :
              LET e == ret.results[i]
                  registered == RegisteredNumbers(e.contest)
              IN /\ e.hits = CommonCount(call.sim_nums, registered)
                 /\ e.matched_nums = Range(call.sim_nums) \cap Range(registered)
                 /\ Range(registered) = Range(call.sim_nums) => e.hits = Len(call.sim_nums)

\* A selection was scored against the draw of the same six numbers.
C3_Witness ==
    /\ call.op = "simulate"
    /\ ret.status = "rendered"
    /\ \E i \in DOMAIN ret.results :
          /\ Range(RegisteredNumbers(ret.results[i].contest)) = Range(call.sim_nums)
          /\ ret.results[i].hits = GameSize

\* The hits of a stored draw with a selection, from the numbers registered.
DrawHits(row, sim_nums) == CommonCount(sim_nums, RegisteredNumbers(row.contest_number))

\* C6: the simulation of a selection of 6 to 15 numbers lists exactly the
\* stored draws with at least 3 hits, by hits descending and, for equal
\* hits, by contest_number descending.
C6_SimulationRanking ==
    (call.op = "simulate" /\ Len(call.sim_nums) \in MinSimulate..MaxSelections) =>
        /\ ret.status = "rendered"
        /\ {ret.results[i].contest : i \in DOMAIN ret.results}
              = {official_draws[i].contest_number : i \in
                    {i \in DOMAIN official_draws :
                        DrawHits(official_draws[i], call.sim_nums) >= MinReportedHits}}
        /\ \A i, j \in DOMAIN ret.results :
              i < j =>
                \/ ret.results[i].hits > ret.results[j].hits
                \/ /\ ret.results[i].hits = ret.results[j].hits
                   /\ ret.results[i].contest > ret.results[j].contest
        /\ \A i \in DOMAIN ret.results :
              \E k \in DOMAIN official_draws :
                  /\ official_draws[k].contest_number = ret.results[i].contest
                  /\ ret.results[i].hits = DrawHits(official_draws[k], call.sim_nums)

\* Two draws tie on hits, the later contest first, and a stored draw with
\* fewer than 3 hits is left out.
C6_Witness ==
    /\ call.op = "simulate"
    /\ ret.status = "rendered"
    /\ Len(ret.results) >= 2
    /\ ret.results[1].hits = ret.results[2].hits
    /\ ret.results[1].contest > ret.results[2].contest
    /\ Len(ret.results) < Len(official_draws)

(***************************************************************************)
(* SpecConference: the dashboard's conference tab on the known games.      *)
(***************************************************************************)
\* No draw, one draw, and three of which one is a Mega da Virada and one
\* shares no number with any known game.
ConferenceStores ==
    {StoreOf({d \in KnownDraws : d.contest \in C}) : C \in {{}, {1}, {1, 2, 5}}}

InitConference ==
    /\ official_draws \in ConferenceStores
    /\ generated_games \in KnownGameTables
    /\ current_games = <<>>
    /\ cache \in WarmOrCold(official_draws, generated_games)
    /\ call = [op |-> "start"]
    /\ ret = NotRun

\* One run of the dashboard on each store, the combination size at its default.
NextConference ==
    /\ call.op = "start"
    /\ \E filter_virada \in BOOLEAN, selected \in {0, 1, 2, 5}, min_hits \in MinHitsChoices :
           Dashboard(filter_virada, selected, min_hits, 2)

SpecConference == InitConference /\ [][NextConference]_vars

\* The hits of a stored game with the draw of a contest, from the numbers
\* generated and the numbers registered.
GameHits(row, contest) == CommonCount(GeneratedNumbers(row.numbers), RegisteredNumbers(contest))

\* The conference compared the stored games with the draw selected.
Conferred == call.op = "dashboard" /\ ret.status = "rendered" /\ ret.conference.message = "results"

ConferredHits == [i \in DOMAIN ret.conference.results |-> ret.conference.results[i].hits]

\* The stored games have 6, 4, 3 and 5 hits with the draw selected, in this
\* order, and the minimum is 4.
C4_Case ==
    /\ Conferred
    /\ call.min_hits = 4
    /\ [i \in DOMAIN generated_games |-> GameHits(generated_games[i], call.selected)]
          = <<6, 4, 3, 5>>

\* C4 as stated: with min_hits = 4, candidates of 6, 4, 3 and 5 hits give
\* exactly the two entries of 6 and 5 hits, in that order.
C4_AsStated == C4_Case => ConferredHits = <<6, 5>>

\* C4, amended: with min_hits = 4, candidates of 6, 4, 3 and 5 hits give
\* exactly the three entries of 6, 5 and 4 hits, in that order: the
\* candidate with exactly min_hits hits is kept.
C4_MinHitsInclusive ==
    C4_Case =>
        /\ ConferredHits = <<6, 5, 4>>
        /\ [i \in DOMAIN ret.conference.results |-> ret.conference.results[i].id] = <<1, 4, 2>>

C4_Witness == C4_Case /\ Len(ret.conference.results) = 3

\* C5: the conference lists exactly the stored games with at least min_hits
\* hits with the draw selected, by hits descending, and among equal hits the
\* bets (is_bet = 1) before the suggestions (is_bet = 0).
C5_ConferenceRanking ==
    Conferred =>
        LET results == ret.conference.results
        IN /\ call.min_hits \in MinHitsChoices
           /\ {results[i].id : i \in DOMAIN results}
                 = {generated_games[i].id : i \in
                       {i \in DOMAIN generated_games :
                           GameHits(generated_games[i], call.selected) >= call.min_hits}}
           /\ \A i, j \in DOMAIN results : i # j => results[i].id # results[j].id
           /\ \A i \in DOMAIN results :
                 \E k \in DOMAIN generated_games :
                     /\ generated_games[k].id = results[i].id
                     /\ results[i].hits = GameHits(generated_games[k], call.selected)
                     /\ results[i].is_bet = generated_games[k].is_bet
           /\ \A i, j \in DOMAIN results :
                 i < j =>
                   \/ results[i].hits > results[j].hits
                   \/ /\ results[i].hits = results[j].hits
                      /\ results[i].is_bet >= results[j].is_bet

\* A bet is listed before a suggestion of the same hits that was stored
\* before it, and a stored game is left out.
C5_Witness ==
    /\ Conferred
    /\ Len(ret.conference.results) < Len(generated_games)
    /\ \E i \in DOMAIN ret.conference.results :
          /\ i + 1 \in DOMAIN ret.conference.results
          /\ ret.conference.results[i].hits = ret.conference.results[i + 1].hits
          /\ ret.conference.results[i].is_bet = 1
          /\ ret.conference.results[i + 1].is_bet = 0
          /\ ret.conference.results[i].id > ret.conference.results[i + 1].id

(***************************************************************************)
(* SpecCombinations: the dashboard's combinations tab on the known stores. *)
(***************************************************************************)
InitCombinations ==
    /\ official_draws \in KnownStores
    /\ generated_games = <<>>
    /\ current_games = <<>>
    /\ cache \in WarmOrCold(official_draws, generated_games)
    /\ call = [op |-> "start"]
    /\ ret = NotRun

\* One run of the dashboard on each store, without games to confer.
NextCombinations ==
    /\ call.op = "start"
    /\ \E filter_virada \in BOOLEAN, ngram_size \in NgramSizes :
           Dashboard(filter_virada, 0, 1, ngram_size)

SpecCombinations == InitCombinations /\ [][NextCombinations]_vars

\* The dashboard ran to its end.
Analysed == call.op = "dashboard" /\ ret.status = "rendered"

\* The known draws the analysis is of: those stored, and with the filter on
\* only those of a 31 December from FirstViradaYear on.
AnalysedDraws ==
    {d \in KnownDraws :
        /\ \E i \in DOMAIN official_draws : official_draws[i].contest_number = d.contest
        /\ call.filter_virada =>
              (d.date.month = 12 /\ d.date.day = 31 /\ d.date.year >= FirstViradaYear)}

\* The number of analysed draws that contain all the numbers of a set.
DrawsContaining(numbers) ==
    Cardinality({d \in AnalysedDraws : numbers \subseteq Range(d.numbers)})

\* The sets of k numbers within one analysed draw.
WithinDrawSets(k) ==
    UNION {{K \in SUBSET Range(d.numbers) : Cardinality(K) = k} : d \in AnalysedDraws}

IsIncreasing(t) == \A i \in 1..(Len(t) - 1) : t[i] < t[i + 1]

\* The counts of the analysis before the cut to the top ones.
Frequencies ==
    Counter(all_ngrams(
        official_draws_list(filtered_draws(official_draws, call.filter_virada)),
        call.ngram_size))

\* C7: for every size k of 2..5 and every collection of draws, each sorted
\* k-tuple counted has as its count the number of draws that contain all its
\* numbers, the tuples counted are exactly the k-subsets of single draws
\* (none spans two draws), each once; the draw [1,2,3,4,5,6] alone with k = 2
\* gives exactly 15 entries, each of count 1.
C7_CountsAreDrawsContaining ==
    Analysed =>
        \A k \in {call.ngram_size}, counted \in {Frequencies},
           entries \in {ret.combinations.ngram_counts} :
            /\ k \in NgramSizes
            /\ \A i \in DOMAIN counted :
                  /\ Len(counted[i].combo) = k
                  /\ IsIncreasing(counted[i].combo)
                  /\ counted[i].count = DrawsContaining(Range(counted[i].combo))
            /\ Cardinality({counted[i].combo : i \in DOMAIN counted}) = Len(counted)
            /\ {Range(counted[i].combo) : i \in DOMAIN counted} = WithinDrawSets(k)
            /\ \A i \in DOMAIN entries :
                  /\ Len(entries[i].combo) = k
                  /\ IsIncreasing(entries[i].combo)
                  /\ Range(entries[i].combo) \in WithinDrawSets(k)
                  /\ entries[i].count = DrawsContaining(Range(entries[i].combo))
            /\ ({d.numbers : d \in AnalysedDraws} = {<<6, 5, 4, 3, 2, 1>>} /\ k = 2) =>
                  /\ Len(entries) = 15
                  /\ \A i \in DOMAIN entries : entries[i].count = 1
                  /\ {Range(entries[i].combo) : i \in DOMAIN entries}
                        = {K \in SUBSET (1..6) : Cardinality(K) = 2}

\* Pairs were counted over three draws: one pair is in two of them, and two
\* numbers that are only in different draws are no entry.
C7_Witness ==
    /\ Analysed
    /\ call.ngram_size = 2
    /\ Cardinality(AnalysedDraws) = 3
    /\ \E i \in DOMAIN ret.combinations.ngram_counts :
          ret.combinations.ngram_counts[i] = [combo |-> <<1, 2>>, count |-> 2]
    /\ \E d, e \in AnalysedDraws :
          \E a \in Range(d.numbers), b \in Range(e.numbers) : {a, b} \notin WithinDrawSets(2)

\* C8: the entries shown are the min(15, number of distinct combinations)
\* of highest count, by count descending: no combination left out has a
\* count greater than one shown, and a higher count always precedes a lower
\* one; for the draws [1,2,3,4,5,6] and [1,2,3,7,8,9] with k = 3 the
\* combination (1,2,3), of count 2, is above every combination of count 1.
C8_TopFifteenByCount ==
    Analysed =>
        \A counted \in {Frequencies}, entries \in {ret.combinations.ngram_counts} :
            LET shown == {entries[i] : i \in DOMAIN entries}
                left_out == {counted[i] : i \in DOMAIN counted} \ shown
            IN /\ Len(entries) = IF Len(counted) < TopCombinations
                                 THEN Len(counted) ELSE TopCombinations
               /\ Cardinality(shown) = Len(entries)
               /\ shown \subseteq {counted[i] : i \in DOMAIN counted}
               /\ \A i \in DOMAIN entries :
                     entries[i].count = DrawsContaining(Range(entries[i].combo))
               /\ \A i, j \in DOMAIN entries : i < j => entries[i].count >= entries[j].count
               /\ \A out \in left_out : \A e \in shown : out.count <= e.count
               /\ ret.combinations.data_list =
                     [i \in DOMAIN entries |->
                         [Combinacao |-> combo_str(entries[i].combo),
                          Frequencia |-> entries[i].count]]
               /\ ({d.numbers : d \in AnalysedDraws}
                        = {<<6, 5, 4, 3, 2, 1>>, <<1, 2, 3, 7, 8, 9>>}
                     /\ call.ngram_size = 3) =>
                     /\ entries[1] = [combo |-> <<1, 2, 3>>, count |-> 2]
                     /\ \A i \in DOMAIN entries : i > 1 => entries[i].count = 1

\* More than 15 triples were counted, and the one that is in two draws,
\* counted after 15 others, is shown first.
C8_Witness ==
    /\ Analysed
    /\ call.ngram_size = 3
    /\ Len(Frequencies) > TopCombinations
    /\ Len(ret.combinations.ngram_counts) = TopCombinations
    /\ ret.combinations.ngram_counts[1] = [combo |-> <<4, 5, 6>>, count |-> 2]
    /\ ret.combinations.ngram_counts[2].count = 1
    /\ ret.combinations.data_list[1].Combinacao
          = <<"0", "4", ",", " ", "0", "5", ",", " ", "0", "6">>

\* C9: with no official draws to analyse, the analysis ends without an error
\* and with no entries, for every k of 2..5.
C9_EmptyDrawsNoEntries ==
    /\ (call.op = "dashboard" /\ AnalysedDraws = {}) =>
          /\ ret.status = "rendered"
          /\ ret.combinations.status = "rendered"
          /\ ret.combinations.ngram_counts = <<>>
          /\ ret.combinations.data_list = <<>>
    /\ \A k \in NgramSizes :
          /\ all_ngrams(<<>>, k) = <<>>
          /\ ngram_table(<<>>, k) = <<>>

\* The dashboard ran on the empty store with the largest size.
C9_Witness ==
    /\ Analysed
    /\ official_draws = <<>>
    /\ AnalysedDraws = {}
    /\ call.ngram_size = 5
    /\ ret.combinations.ngram_counts = <<>>

(***************************************************************************)
(* SpecVirada: is_mega_da_virada on strings, dates and other values.       *)
(***************************************************************************)
YearTexts ==
    {<<"2", "0", "0", "8">>, <<"2", "0", "0", "9">>, <<"2", "0", "1", "0">>,
     <<"2", "0", "2", "0">>, <<"0", "0", "0", "0">>, <<"2", "0", "9">>,
     <<"2", "0", "0", "9", "0">>, <<"2", "0", "x", "9">>}

MonthTexts ==
    {<<"1", "2">>, <<"1", "1">>, <<"0", "6">>, <<"6">>, <<"1", "3">>, <<"0", "0">>,
     <<"1">>, <<"0", "2">>}

DayTexts ==
    {<<"3", "1">>, <<"3", "0">>, <<"1", "5">>, <<"1">>, <<"3", "2">>, <<"0", "0">>,
     <<"3">>, <<" ", "3">>, <<"3", "1", "1">>, <<"3", "1", " ">>}

Separators == {<<"-">>, <<"/">>}

NotADate == <<"n", "o", "t", "-", "a", "-", "d", "a", "t", "e">>

DateTexts ==
    {y \o s \o m \o s \o d : y \in YearTexts, s \in Separators, m \in MonthTexts, d \in DayTexts}
        \cup {NotADate, <<>>}

DateObjects ==
    {[year |-> y, month |-> md[1], day |-> md[2]] :
        y \in {2008, 2009, 2010, 2020},
        md \in {<<12, 31>>, <<12, 30>>, <<6, 15>>, <<1, 31>>, <<11, 30>>}}

DateVals ==
    {StrVal(t) : t \in DateTexts}
        \cup {[type |-> ty, date |-> d] : ty \in {"date", "datetime"}, d \in DateObjects}
        \cup {[type |-> ty] : ty \in {"NoneType", "int", "float"}}

InitVirada ==
    /\ EmptyStore
    /\ call \in {[op |-> "is_mega_da_virada", date_val |-> v] : v \in DateVals}
    /\ ret = NotRun

CallIsMegaDaVirada ==
    /\ call.op = "is_mega_da_virada"
    /\ ret = NotRun
    /\ ret' = is_mega_da_virada(call.date_val)
    /\ UNCHANGED <<official_draws, generated_games, current_games, cache, call>>

NextVirada == CallIsMegaDaVirada

SpecVirada == InitVirada /\ [][NextVirada]_vars

\* A string YYYY-12-31 of exactly ten characters whose year is at least 2009.
IsViradaText(chars) ==
    /\ Len(chars) = 10
    /\ \A i \in 1..4 : IsDigit(chars[i])
    /\ SubSeq(chars, 5, 10) = <<"-", "1", "2", "-", "3", "1">>
    /\ 1000 * DigitValue(chars[1]) + 100 * DigitValue(chars[2])
           + 10 * DigitValue(chars[3]) + DigitValue(chars[4]) >= FirstViradaYear

\* C10: is_mega_da_virada(d) returns true exactly when d is a date, or a
\* YYYY-MM-DD string of a date, on 31 December of 2009 or later; for every
\* other date, string and value it returns false, and it never raises
\* (2009-12-31 true; 2008-12-31, 2020-06-15 and not-a-date false).
C10_ViradaRule ==
    (call.op = "is_mega_da_virada" /\ ret # NotRun) =>
        LET d == call.date_val
            expected ==
                \/ d.type \in {"date", "datetime"}
                     /\ d.date.month = 12 /\ d.date.day = 31 /\ d.date.year >= FirstViradaYear
                \/ d.type = "str" /\ IsViradaText(d.chars)
        IN /\ ret.status = "returned"
           /\ ret.value = expected
           /\ d = StrVal(strftime([year |-> 2009, month |-> 12, day |-> 31])) => ret.value
           /\ d = StrVal(strftime([year |-> 2008, month |-> 12, day |-> 31])) => ~ret.value
           /\ d = StrVal(strftime([year |-> 2020, month |-> 6, day |-> 15])) => ~ret.value
           /\ d = StrVal(NotADate) => ~ret.value

C10_Witness ==
    /\ call.op = "is_mega_da_virada"
    /\ call.date_val = StrVal(<<"2", "0", "0", "9", "-", "1", "2", "-", "3", "1">>)
    /\ ret = Returned(TRUE)

(***************************************************************************)
(* SpecImport: the import tab on sheets of known rows.                     *)
(***************************************************************************)
\* A sheet holds at most MaxImportRows of the known rows.
MaxImportRows == 3

\* page_official_draws, the import button pressed with this source; when
\* the import returns, the rest of the page runs and its last tab reads
\* official_draws through get_data; an exception ends the run of the page.
ImportDraws(file_source) ==
    \E done \in {import_official_data_from_excel(official_draws, file_source)} :
        /\ call' = [op |-> "import", file_source |-> file_source]
        /\ official_draws' = done.table
        /\ ret' = done.value
        /\ cache' =
              IF done.value.status = "raised" THEN cache
              ELSE LET cleared == IF done.value.value.error = "None"
                                     /\ done.value.value.added > 0
                                  THEN EmptyCache ELSE cache
                   IN get_data(cleared, "official_draws", done.table).cache
        /\ UNCHANGED <<generated_games, current_games>>

IntCells(numbers) == [i \in DOMAIN numbers |-> IntCell(numbers[i])]

\* Rows of a sheet: two of the same contest, a date in another format, an
\* empty ball cell, an empty date cell, a time of day in a ball column, and
\* balls that repeat, lie outside 1..60, have a fraction or are text.
KnownRows ==
    <<[Concurso |-> 1, Data |-> StrVal(<<"3", "1", "/", "1", "2", "/", "2", "0", "0", "9">>),
       bolas |-> IntCells(<<4, LastNumber, 2, 1, 3, 5>>)],
      [Concurso |-> 1, Data |-> DateCell(2020, 6, 15),
       bolas |-> IntCells(<<1, 2, 3, 4, 5, 6>>)],
      [Concurso |-> 2, Data |-> StrVal(<<"2", "0", "0", "9", "-", "1", "2", "-", "3", "1">>),
       bolas |-> IntCells(<<1, 2, 3, 7, 8, 9>>)],
      [Concurso |-> 2, Data |-> StrVal(<<"1", "5", "/", "0", "6", "/", "2", "0", "2", "0">>),
       bolas |-> <<IntCell(10), NaN, IntCell(30), StrVal(<<"x">>), IntCell(50), IntCell(LastNumber)>>],
      [Concurso |-> 3, Data |-> NaN,
       bolas |-> IntCells(<<10, 20, 30, 40, 50, LastNumber>>)],
      [Concurso |-> 2, Data |-> StrVal(<<"1", "/", "2", "/", "2", "0", "2", "1">>),
       bolas |-> <<IntCell(7), TimeCell, IntCell(8), IntCell(9), IntCell(10), IntCell(11)>>],
      [Concurso |-> 2, Data |-> StrVal(<<"0", "1", "/", "0", "2", "/", "2", "0", "2", "1">>),
       bolas |-> <<IntCell(7), IntCell(7), IntCell(0), IntCell(LastNumber + 1),
                   FloatCell(8, 5), StrVal(<<"9">>)>>]>>

Sheet(rows) == [readable |-> TRUE, columns |-> required_cols, rows |-> rows]

\* A file that cannot be read, a sheet without the column of the dates, and
\* the sheets of at most MaxImportRows distinct known rows in any order.
ImportSources ==
    {[readable |-> FALSE],
     [readable |-> TRUE, columns |-> required_cols \ {"Data"}, rows |-> <<KnownRows[1]>>]}
    \cup {Sheet([i \in DOMAIN picks |-> KnownRows[picks[i]]]) :
            picks \in UNION {DistinctLists(DOMAIN KnownRows, n) : n \in 0..MaxImportRows}}

\* The stores of the known draws of the first two contests.
ImportStores == {StoreOf(D) : D \in SUBSET {d \in KnownDraws : d.contest \in {1, 2}}}

InitImport ==
    /\ official_draws \in ImportStores
    /\ generated_games = <<>>
    /\ current_games = <<>>
    /\ cache \in WarmOrCold(official_draws, generated_games)
    /\ call = [op |-> "start"]
    /\ ret = NotRun

\* One press of the import button on each store.
NextImport == call.op = "start" /\ \E file_source \in ImportSources : ImportDraws(file_source)

SpecImport == InitImport /\ [][NextImport]_vars

\* The date of a row is a valid dd/mm/yyyy string or a native date.
DateParses(cell) ==
    \/ cell.type \in {"date", "datetime"}
    \/ cell.type = "str" /\ strptime_dmy(cell.chars).status = "returned"

\* The six cells of the balls of a row give six integers.
SixIntegers(bolas) ==
    Len(bolas) = GameSize /\ \A i \in DOMAIN bolas : int_of(bolas[i]).status = "returned"

FullyValid(row) == DateParses(row.Data) /\ SixIntegers(row.bolas)

\* The import returned its counts without an error.
Imported(value) == value.status = "returned" /\ value.value.error = "None"

\* C11 as stated: an import inserts only for fully valid rows; every row
\* whose balls do not give six integers or whose date is neither a valid
\* dd/mm/yyyy string nor a native date is counted in skipped_count and gives
\* no row of the store: a contest that was not stored and that only such
\* rows of the sheet have is not stored afterwards.
C11_OnlyValidRowsInserted ==
    [][call'.op = "import" =>
       \A file_source \in {call'.file_source} :
          (ImportDraws(file_source) /\ Imported(ret') /\ file_source.readable) =>
              LET rows == file_source.rows
                  bad == {i \in DOMAIN rows : ~FullyValid(rows[i])}
              IN /\ ret'.value.skipped >= Cardinality(bad)
                 /\ ret'.value.added <= Len(rows) - Cardinality(bad)
                 /\ \A i \in bad :
                       (/\ \A j \in DOMAIN official_draws :
                              official_draws[j].contest_number # rows[i].Concurso
                        /\ \A k \in DOMAIN rows :
                              rows[k].Concurso = rows[i].Concurso => k \in bad)
                       => \A j \in DOMAIN official_draws' :
                              official_draws'[j].contest_number # rows[i].Concurso]_vars

\* C12 as stated: once the source is read and has the required columns, the
\* import raises no exception whatever its rows, processes every row and
\* returns (added_count, skipped_count, None); each valid row of a contest
\* not yet stored that follows a bad row is inserted.
C12_BadRowNeverAborts ==
    [][call'.op = "import" =>
       \A file_source \in {call'.file_source} :
          (/\ ImportDraws(file_source)
           /\ file_source.readable
           /\ required_cols \subseteq file_source.columns) =>
              LET rows == file_source.rows
              IN /\ Imported(ret')
                 /\ ret'.value.added + ret'.value.skipped = Len(rows)
                 /\ \A i \in DOMAIN rows :
                       FullyValid(rows[i]) =>
                           \E j \in DOMAIN official_draws' :
                               official_draws'[j].contest_number = rows[i].Concurso]_vars

\* C13: an import that returns without an error accounts for every row:
\* added_count + skipped_count is the number of rows, added_count is the
\* number of rows official_draws grew by, and a row of a contest already
\* stored, before or by an earlier row of the sheet, is counted as skipped;
\* a source that cannot be read or lacks a column gives (0, 0, error) and
\* leaves the store as it is.
C13_CountsAccountForRows ==
    [][call'.op = "import" =>
       \A file_source \in {call'.file_source} :
          (ImportDraws(file_source) /\ ret'.status = "returned") =>
              IF file_source.readable /\ required_cols \subseteq file_source.columns
              THEN LET rows == file_source.rows
                       repeated == {i \in DOMAIN rows :
                                      /\ FullyValid(rows[i])
                                      /\ \/ \E j \in DOMAIN official_draws :
                                               official_draws[j].contest_number
                                                   = rows[i].Concurso
                                         \/ \E k \in 1..(i - 1) :
                                               /\ FullyValid(rows[k])
                                               /\ rows[k].Concurso = rows[i].Concurso}
                   IN /\ ret'.value.error = "None"
                      /\ ret'.value.added + ret'.value.skipped = Len(rows)
                      /\ ret'.value.added = Len(official_draws') - Len(official_draws)
                      /\ ret'.value.skipped >= Cardinality(repeated)
                      /\ ret'.value.skipped
                            = Cardinality(repeated)
                                + Cardinality({i \in DOMAIN rows :
                                                  \/ import_date(rows[i].Data).status = "raised"
                                                  \/ ~SixIntegers(rows[i].bolas)})
              ELSE /\ ret'.value.added = 0
                   /\ ret'.value.skipped = 0
                   /\ ret'.value.error # "None"
                   /\ official_draws' = official_draws]_vars

\* A sheet of three rows was imported into a store that had the contest of
\* one of them: one row was added, and two were skipped, one of them for its
\* contest.
C13_Witness ==
    /\ call.op = "import"
    /\ Imported(ret)
    /\ Len(call.file_source.rows) = 3
    /\ ret.value.added = 1
    /\ ret.value.skipped = 2
    /\ \E i \in DOMAIN call.file_source.rows :
          /\ FullyValid(call.file_source.rows[i])
          /\ call.file_source.rows[i].Concurso = 1
    /\ \E j \in DOMAIN official_draws :
          /\ official_draws[j].contest_number = 1
          /\ official_draws[j].date = strftime([year |-> 2008, month |-> 12, day |-> 31])

(***************************************************************************)
(* SpecSession: a session over the pages that write and the pages that     *)
(* list the tables.                                                        *)
(***************************************************************************)
\* df.sort_values(by=key, ascending=False) of rows that are in key order.
Reverse(rows) == [i \in DOMAIN rows |-> rows[Len(rows) + 1 - i]]

\* page_history: the generated games, the latest first, is_bet as a label.
History ==
    \E got \in {get_data(cache, "generated_games", generated_games)} :
        /\ call' = [op |-> "history"]
        /\ cache' = got.cache
        /\ ret' = IF got.value = <<>> THEN Rendered("warning", <<>>)
                  ELSE Rendered("table",
                           [i \in DOMAIN got.value |->
                               [Reverse(got.value)[i] EXCEPT
                                   !.is_bet = IF @ = 1 THEN "Aposta" ELSE "Sugestao"]])
        /\ UNCHANGED <<official_draws, generated_games, current_games>>

\* page_official_draws with no button pressed: its last tab lists the
\* official draws, the latest contest first, each with its type.
ListDraws ==
    \E got \in {get_data(cache, "official_draws", official_draws)} :
        /\ call' = [op |-> "list_draws"]
        /\ cache' = got.cache
        /\ ret' = IF got.value = <<>> THEN Rendered("info", <<>>)
                  ELSE Rendered("table",
                           [i \in DOMAIN got.value |->
                               LET row == Reverse(got.value)[i]
                               IN [contest_number |-> row.contest_number,
                                   date |-> row.date,
                                   numbers |-> row.numbers,
                                   type_display |->
                                       IF is_mega_da_virada(StrVal(row.date)).value
                                       THEN "Mega da Virada" ELSE "Regular"]])
        /\ UNCHANGED <<official_draws, generated_games, current_games>>

\* The ttl of st.cache_data elapses: the cached tables are dropped.
CacheExpires ==
    /\ cache # EmptyCache
    /\ cache' = EmptyCache
    /\ call' = [op |-> "wait"]
    /\ ret' = NotRun
    /\ UNCHANGED <<official_draws, generated_games, current_games>>

\* Sheets imported in a session: a valid row; a valid row and then a row
\* with a time of day in a ball column; a row without a date and a row of
\* balls that are no ticket; a file that cannot be read.
SessionSources ==
    {Sheet(<<KnownRows[1]>>),
     Sheet(<<KnownRows[2], KnownRows[6]>>),
     Sheet(<<KnownRows[5], KnownRows[7]>>),
     [readable |-> FALSE]}

\* Values of the manual registration form in a session.
SessionDrawInputs ==
    {d \in DrawInputs : d.draw_date.year = 2009 \/ Len(d.drawn_nums) # GameSize}

\* The check boxes of the pending batch as the form shows them: all ticked.
DefaultSelections == [idx \in DOMAIN current_games |-> TRUE]

NextSession ==
    \/ \E f \in FixedSelections : Generate(1, f)
    \/ \E t \in CurrentTimes : ConfirmSave(DefaultSelections, t)
    \/ \E c \in 1..2, d \in SessionDrawInputs : RegisterDraw(c, d.draw_date, d.drawn_nums)
    \/ \E file_source \in SessionSources : ImportDraws(file_source)
    \/ History
    \/ ListDraws
    \/ CacheExpires

SpecSession == Init /\ [][NextSession]_vars

\* The rows a listing shows, without the columns added for display.
ListedDraws ==
    [i \in DOMAIN ret.results |->
        [contest_number |-> ret.results[i].contest_number,
         date |-> ret.results[i].date,
         numbers |-> ret.results[i].numbers]]

ListedGames ==
    [i \in DOMAIN ret.results |->
        [ret.results[i] EXCEPT !.is_bet = IF @ = "Aposta" THEN 1 ELSE 0]]

\* C14 as stated: after any sequence of actions of a session, a listing of a
\* table shows the table as it is, every completed write included: the
\* cache never answers with rows read before a write.
C14_ReadsSeeCompletedWrites ==
    /\ call.op = "list_draws" => ListedDraws = Reverse(official_draws)
    /\ call.op = "history" => ListedGames = Reverse(generated_games)

(***************************************************************************)
(* SpecValidation: one press of "GERAR JOGOS", "Salvar Resultado" or       *)
(* "Consultar Resultados Passados" in a session with stored rows and,      *)
(* possibly, a pending batch.                                              *)
(***************************************************************************)
\* The pending batches of the sessions of SpecValidation: none, or two games
\* generated with the five fixed numbers.
PendingBatches ==
    {<<>>, <<<<1, 2, 3, 4, 5, LastNumber>>, <<1, 2, 3, 4, 6, LastNumber>>>>}

InitValidation ==
    /\ official_draws \in ImportStores
    /\ generated_games \in {g \in KnownGameTables : Len(g) <= 1}
    /\ current_games \in PendingBatches
    /\ cache \in WarmOrCold(official_draws, generated_games)
    /\ call = [op |-> "start"]
    /\ ret = NotRun

NextValidation ==
    /\ call.op = "start"
    /\ \/ \E q \in QtdChoices, f \in FixedSelections : Generate(q, f)
       \/ \E c \in 1..MaxContest, d \in DrawInputs : RegisterDraw(c, d.draw_date, d.drawn_nums)
       \/ \E sim_nums \in SimulateInputs : Simulate(sim_nums)

SpecValidation == InitValidation /\ [][NextValidation]_vars

\* The tables and the pending batch stay as they are in this step.
NothingDone == UNCHANGED <<official_draws, generated_games, current_games>>

\* C15: an input that fails validation is refused and the action is not
\* performed: with more than MaxFixed fixed numbers no game is generated,
\* with other than GameSize numbers no draw is registered, with fewer than
\* MinSimulate numbers no simulation result is computed; the tables and the
\* pending batch are unchanged and no exception is raised.
C15_RejectedInputsDoNothing ==
    [][/\ (call'.op = "generate" /\ Len(call'.fixed_selection) > MaxFixed)
              => (ret' = [status |-> "rejected"] /\ NothingDone)
       /\ \A c \in 1..MaxContest, d \in DrawInputs :
              (Len(d.drawn_nums) # GameSize /\ RegisterDraw(c, d.draw_date, d.drawn_nums))
                  => (ret' = [status |-> "rejected"] /\ NothingDone)
       /\ (call'.op = "simulate" /\ Len(call'.sim_nums) < MinSimulate)
              => (ret' = [status |-> "rejected"] /\ NothingDone)]_vars

\* Six fixed numbers were refused while a batch was pending and both tables
\* had rows.
C15_Witness ==
    /\ call.op = "generate"
    /\ Len(call.fixed_selection) > MaxFixed
    /\ ret.status = "rejected"
    /\ current_games # <<>>
    /\ official_draws # <<>>
    /\ generated_games # <<>>

\* C16: official draws are never changed or deleted: through every manual
\* registration and every import, each row of official_draws is a row of
\* the table afterwards, as it was, and the table only grows.
C16_OfficialDrawsOnlyGrow ==
    [][/\ Len(official_draws') >= Len(official_draws)
       /\ \A i \in DOMAIN official_draws :
              \E j \in DOMAIN official_draws' : official_draws'[j] = official_draws[i]]_vars

\* An import ended on a table of three draws: registrations and imports,
\* refused duplicates among them, came before.
C16_Witness ==
    /\ call.op = "import"
    /\ Len(official_draws) >= 3
    /\ \E i \in DOMAIN official_draws : official_draws[i].contest_number = 1

(***************************************************************************)
(* SpecGames: the generator page, "GERAR JOGOS" and "Confirmar e Salvar"   *)
(* in any order, from the empty store.                                     *)
(***************************************************************************)
SpecGames == Init /\ [][NextGames]_vars

\* C17: "Confirmar e Salvar" persists each game of the pending batch exactly
\* once, in the order of the batch, with is_bet 1 exactly for the games
\* whose check box is ticked; the rows stored before stay as they are;
\* afterwards the batch is empty, and without a pending batch nothing is
\* saved.
C17_ConfirmSavePersistsBatch ==
    [][call'.op = "confirm_save" =>
          IF current_games = <<>> THEN UNCHANGED generated_games
          ELSE /\ DOMAIN call'.selections = DOMAIN current_games
               /\ Len(generated_games') = Len(generated_games) + Len(current_games)
               /\ \A i \in DOMAIN generated_games : generated_games'[i] = generated_games[i]
               /\ \A idx \in DOMAIN current_games :
                      \E row \in {generated_games'[Len(generated_games) + idx]} :
                          /\ parse_numbers_from_str(row.numbers) = Returned(current_games[idx])
                          /\ row.is_bet = (IF call'.selections[idx] THEN 1 ELSE 0)
               /\ current_games' = <<>>]_vars

\* A batch of two different games was saved, the first unticked and the
\* second ticked.
C17_Witness ==
    /\ call.op = "confirm_save"
    /\ call.selections = <<FALSE, TRUE>>
    /\ Len(generated_games) = 2
    /\ generated_games[1].is_bet = 0
    /\ generated_games[2].is_bet = 1
    /\ generated_games[1].numbers # generated_games[2].numbers
    /\ current_games = <<>>

\* The numbers of a stored row are GameSize distinct numbers of
\* 1..LastNumber in increasing order.
IsStoredTicket(text) ==
    \E parsed \in {parse_numbers_from_str(text)} :
        /\ parsed.status = "returned"
        /\ Len(parsed.value) = GameSize
        /\ \A k \in DOMAIN parsed.value : parsed.value[k] \in 1..LastNumber
        /\ IsIncreasing(parsed.value)

\* C18: after any manual registrations and imports, every row of
\* official_draws holds exactly six distinct numbers of 1..60 in strictly
\* increasing order, and its contest number is positive.
C18_OfficialRowsAreDraws ==
    \A i \in DOMAIN official_draws :
        /\ IsStoredTicket(official_draws[i].numbers)
        /\ official_draws[i].contest_number > 0

\* The numbers of a stored row.
StoredNumbers(row) == Range(parse_numbers_from_str(row.numbers).value)

\* C19: every row of generated_games holds six distinct numbers of 1..60 in
\* strictly increasing order and has is_bet 0 or 1, and it contains every
\* fixed number selected when it was generated: each game of a batch just
\* generated contains the selection of that press, and each row contains
\* the fixed numbers of a selection the page lets generate.
C19_GeneratedRowsAreTickets ==
    /\ \A i \in DOMAIN generated_games :
           /\ IsStoredTicket(generated_games[i].numbers)
           /\ generated_games[i].is_bet \in {0, 1}
           /\ \E f \in FixedSelections :
                  /\ Len(f) <= MaxFixed
                  /\ Range(f) \subseteq StoredNumbers(generated_games[i])
    /\ (call.op = "generate" /\ ret.status = "rendered")
           => \A idx \in DOMAIN current_games :
                  /\ Range(call.fixed_selection) \subseteq Range(current_games[idx])
                  /\ IsStoredTicket(numbers_str(current_games[idx]))

\* Two games generated with the five fixed numbers are stored, one as a
\* suggestion and one as a bet, and a new batch is pending.
C19_Witness ==
    /\ Len(generated_games) = 2
    /\ {generated_games[1].is_bet, generated_games[2].is_bet} = {0, 1}
    /\ generated_games[1].numbers # generated_games[2].numbers
    /\ call.op = "generate"
    /\ ret.status = "rendered"
    /\ Len(current_games) = 2

\* C20: "GERAR JOGOS" does nothing beyond the pending batch: it leaves both
\* tables and the read cache as they are, and when it renders, the batch is
\* replaced by one game per requested game, the list of fixed numbers is
\* after the calls what it was before them, and every game of the batch is
\* a game of six numbers with all of those fixed numbers.
C20_GenerateOnlyReplacesBatch ==
    [][call'.op = "generate" =>
          /\ UNCHANGED <<official_draws, generated_games, cache>>
          /\ ret'.status = "rendered" =>
                 /\ Len(current_games') = call'.qtd_apostas
                 /\ ret'.fixed_selection = call'.fixed_selection
                 /\ \A idx \in DOMAIN current_games' :
                        /\ Len(current_games'[idx]) = GameSize
                        /\ Range(call'.fixed_selection) \subseteq Range(current_games'[idx])
          /\ ret'.status # "rendered" => UNCHANGED current_games]_vars

\* Two games were generated in a session with rows in both tables; they
\* are the same game twice, so they replaced the batch that was pending.
C20_Witness ==
    /\ call.op = "generate"
    /\ call.qtd_apostas = 2
    /\ ret.status = "rendered"
    /\ Len(current_games) = 2
    /\ current_games[1] = current_games[2]
    /\ official_draws # <<>>
    /\ generated_games # <<>>

(***************************************************************************)
(* src/main.py: MegaSenaGenerator.__gerarAleatorios, and SpecDesktop, one  *)
(* call of it, pass by pass.                                               *)
(***************************************************************************)
\* The length at which the loop that collects numbers ends.
Collected == 10

\* The numbers randint is explored within: one more than the loop collects,
\* so that the loop can end with different sets of numbers.
DesktopPool == (1..Collected) \cup {LastNumber}

randint_below(a, b) == (a..(b - 1)) \cap DesktopPool

\* randint(a, b): an integer of a..b; the outcomes explored are those
\* within DesktopPool.
randint(a, b) == (a..b) \cap DesktopPool

\* The outcomes of randint(1, 60) explored with lista_sorteados collected so
\* far: a number of the list, or one above all of its numbers, so that each
\* set of numbers is collected in one order; the sample of the second stage
\* takes the numbers of the list in every order.
explored(lista_sorteados) ==
    {n \in randint(1, LastNumber) :
        \/ n \in Range(lista_sorteados)
        \/ \A i \in DOMAIN lista_sorteados : lista_sorteados[i] < n}

\* One pass of the loop with numero_sorteado drawn: appended if not in the
\* list.
drawn(lista_sorteados, numero_sorteado) ==
    IF numero_sorteado \notin Range(lista_sorteados)
    THEN Append(lista_sorteados, numero_sorteado)
    ELSE lista_sorteados

\* The else clause of the loop: sample(lista_sorteados, 6), then sort().
sampled_and_sorted(lista_sorteados) ==
    {IF r.status = "raised" THEN r ELSE Returned(sorted(r.value)) :
        r \in sample(Range(lista_sorteados), GameSize)}

RECURSIVE collected(_)
\* The lists the loop can end with from lista_sorteados; a pass that draws
\* a number of the list leaves the loop where it was.
collected(lista_sorteados) ==
    IF Len(lista_sorteados) >= Collected THEN {lista_sorteados}
    ELSE UNION {collected(drawn(lista_sorteados, n)) :
                   n \in explored(lista_sorteados) \ Range(lista_sorteados)}

\* The outcomes of __gerarAleatorios with its loop at lista_sorteados; a
\* call starts the loop at the empty list.
gerarAleatorios(lista_sorteados) ==
    UNION {sampled_and_sorted(l) : l \in collected(lista_sorteados)}

InitDesktop ==
    /\ EmptyStore
    /\ call = [op |-> "gerarAleatorios", lista_sorteados |-> <<>>]
    /\ ret = NotRun

\* One pass of the loop of __gerarAleatorios.
DrawNumber ==
    /\ call.op = "gerarAleatorios"
    /\ ret = NotRun
    /\ Len(call.lista_sorteados) < Collected
    /\ \E numero_sorteado \in explored(call.lista_sorteados) :
           call' = [call EXCEPT !.lista_sorteados = drawn(@, numero_sorteado)]
    /\ UNCHANGED <<official_draws, generated_games, current_games, cache, ret>>

\* The end of __gerarAleatorios: the sample, the sort and the return.
SampleAndSort ==
    /\ call.op = "gerarAleatorios"
    /\ ret = NotRun
    /\ Len(call.lista_sorteados) >= Collected
    /\ ret' \in sampled_and_sorted(call.lista_sorteados)
    /\ UNCHANGED <<official_draws, generated_games, current_games, cache, call>>

NextDesktop == DrawNumber \/ SampleAndSort

SpecDesktop == InitDesktop /\ [][NextDesktop]_vars

\* C21: the desktop generator guarantees what generate_game_logic([])
\* guarantees, no less and no more: each of its results is six distinct
\* numbers of 1..60 in strictly increasing order, returned from a list the
\* collecting loop can end with; and the tickets a call of
\* __gerarAleatorios can return are exactly the tickets
\* generate_game_logic([]) can return.
C21_DesktopSameTickets ==
    /\ (call.op = "gerarAleatorios" /\ ret # NotRun) =>
           /\ ret.status = "returned"
           /\ Len(ret.value) = GameSize
           /\ Range(ret.value) \subseteq Numbers
           /\ IsIncreasing(ret.value)
           /\ call.lista_sorteados \in collected(<<>>)
    /\ (call.op = "gerarAleatorios" /\ ret = NotRun /\ call.lista_sorteados = <<>>)
           => gerarAleatorios(call.lista_sorteados) = GenerateOutcomes(<<>>)

\* __gerarAleatorios returned a ticket with 60 after collecting ten numbers
\* without the number 1.
C21_Witness ==
    /\ call.op = "gerarAleatorios"
    /\ Len(call.lista_sorteados) = Collected
    /\ 1 \notin Range(call.lista_sorteados)
    /\ ret.status = "returned"
    /\ LastNumber \in Range(ret.value)

====
